---------------------------- MODULE Spec2Model ----------------------------
(***************************************************************************)
(* Reaction.find_core of src/reaction.py (Lynch-Willet reaction core).     *)
(*                                                                         *)
(* A run of find_core is a record `rxn`: the two molecular graphs held by  *)
(* the Reaction object, the local variables of find_core, the position in  *)
(* the method (pc) and a few history fields used only by the properties.   *)
(* The class Chemical (module chemical) is not part of src/; its           *)
(* operations init_ecs, increment_ecs, find_ec_mcs and remove_atoms are    *)
(* modelled from the specification of the Connectivity Engine.             *)
(*                                                                         *)
(* Atom indices are 0-based as in the source.  A sequence of ECs `ecs`     *)
(* holds the EC of atom idx at position idx + 1.                           *)
(***************************************************************************)
EXTENDS Integers, Sequences, FiniteSets, TLC

VARIABLES rxn, twin, call

vars == <<rxn, twin, call>>

(***************************************************************************)
(* Bounds of the model.                                                    *)
(***************************************************************************)
\* Largest number of atoms of an enumerated input graph.
MaxAtoms == 2
\* The round counters saturate here: MaxRound stands for "MaxRound or more".
MaxRound == 11
\* A run whose EC values grow beyond MaxEC is not followed further.  Every atom
\* with a neighbour at least doubles its EC in a round, so such a run is left
\* before its round counter saturates (5 * 2^(MaxRound - 1) > MaxEC).
MaxEC == 5000

\* Largest length of an EC sequence handed to make_ec_map on its own.
MaxLen == 4

\* Element codes of the atoms: 1 = C, 2 = N, 3 = O (the elements of line 82).
NumElems == 3
\* Weight of the element code in the round-0 EC (degrees stay below it).
ElemWeight == 4

(***************************************************************************)
(* Molecular graphs (Chemical.mol).                                        *)
(*   elem[idx + 1]  element code of atom idx                               *)
(*   id[idx + 1]    identity of atom idx: its index in the input graph     *)
(*                  (indices are renumbered by remove_atoms, ids are not)  *)
(*   bonds          set of two-element sets {idx1, idx2}                   *)
(***************************************************************************)
NumAtoms(g) == Len(g.elem)

AtomIdxs(g) == 0 .. (NumAtoms(g) - 1)

Neighbors(g, idx) == {j \in AtomIdxs(g) : j # idx /\ {idx, j} \in g.bonds}

Degree(g, idx) == Cardinality(Neighbors(g, idx))

Pairs(n) == {{i, j} : i, j \in 0 .. (n - 1)} \ {{i} : i \in 0 .. (n - 1)}

GraphsOfSize(n) ==
    {[elem |-> e, id |-> [i \in 1 .. n |-> i - 1], bonds |-> b] :
        e \in [1 .. n -> 1 .. NumElems], b \in SUBSET Pairs(n)}

Graphs(maxN) == UNION {GraphsOfSize(n) : n \in 0 .. maxN}

Range(s) == {s[i] : i \in DOMAIN s}

(***************************************************************************)
(* Connectivity Engine (Chemical), modelled from the specification.        *)
(***************************************************************************)
\* Round 0: a function of the local attributes of the atom only.
init_ecs(g) ==
    [i \in 1 .. NumAtoms(g) |-> g.elem[i] * ElemWeight + Degree(g, i - 1)]

RECURSIVE SumEcs(_, _)
SumEcs(ecs, S) ==
    IF S = {} THEN 0
    ELSE LET j == CHOOSE x \in S : TRUE
         IN  ecs[j + 1] + SumEcs(ecs, S \ {j})

\* Round n > 0: own value of round n-1 plus the values of the neighbours.
NextEcs(g, previous_ecs) ==
    [i \in 1 .. NumAtoms(g) |->
        previous_ecs[i] + SumEcs(previous_ecs, Neighbors(g, i - 1))]

\* a slip of refine: a sequence of the wrong length is cut or padded with 0
increment_ecs_lenient(g, previous_ecs) ==
    LET padded == [i \in 1 .. NumAtoms(g) |->
                      IF i <= Len(previous_ecs) THEN previous_ecs[i] ELSE 0]
    IN  [err |-> "none", ecs |-> NextEcs(g, padded)]

\* refine: a sequence whose length is not the atom count of the graph is a
\* PreconditionViolation and yields no EC sequence.
increment_ecs(g, previous_ecs) ==
    IF Len(previous_ecs) # NumAtoms(g)
    THEN [err |-> "PreconditionViolation", ecs |-> <<>>]
    ELSE [err |-> "none", ecs |-> NextEcs(g, previous_ecs)]

RECURSIVE Ball(_, _, _)
Ball(g, S, radius) ==
    IF radius = 0 THEN S
    ELSE Ball(g, S \cup UNION {Neighbors(g, j) : j \in S}, radius - 1)

\* The matched fragment around atom idx: the atoms within `radius` bonds.
find_ec_mcs(g, idx, radius) == Ball(g, {idx}, radius)

\* Deletes the atoms of idxs with their bonds; the atoms left are renumbered
\* 0, 1, ... in their old order.
remove_atoms(g, idxs) ==
    LET keep == AtomIdxs(g) \ idxs
        NewIdx(j) == Cardinality({k \in keep : k < j})
        OldIdx(i) == CHOOSE j \in keep : NewIdx(j) = i
        n == Cardinality(keep)
    IN  [elem |-> [i \in 1 .. n |-> g.elem[OldIdx(i - 1) + 1]],
         id |-> [i \in 1 .. n |-> g.id[OldIdx(i - 1) + 1]],
         bonds |-> {{NewIdx(x) : x \in b} : b \in {c \in g.bonds : c \subseteq keep}}]

(***************************************************************************)
(* Reaction.make_ec_map (lines 69-78).                                     *)
(***************************************************************************)
EmptyMap == [ec \in {} |-> <<>>]

\* a slip of line 77: ec_map[ec] = [idx], the bucket is replaced
SetBucket(ec_map, ec, idx) ==
    [k \in DOMAIN ec_map \cup {ec} |-> IF k = ec THEN <<idx>> ELSE ec_map[k]]

\* ec_map.setdefault(ec, []).append(idx)
SetDefaultAppend(ec_map, ec, idx) ==
    [k \in DOMAIN ec_map \cup {ec} |->
        IF k = ec
        THEN Append(IF ec \in DOMAIN ec_map THEN ec_map[ec] ELSE <<>>, idx)
        ELSE ec_map[k]]

\* The map after the first n turns of the loop over enumerate(ecs).
RECURSIVE EcMapAfter(_, _)
EcMapAfter(ecs, n) ==
    IF n = 0 THEN EmptyMap
    ELSE SetDefaultAppend(EcMapAfter(ecs, n - 1), ecs[n], n - 1)

make_ec_map(ecs) == EcMapAfter(ecs, Len(ecs))

(***************************************************************************)
(* Reaction.find_core (lines 22-67), one step per block of the method.     *)
(*                                                                         *)
(* pc: "seed"   lines 30-31      "guard"  line 35      "body"  lines 37-42 *)
(*     "map"    lines 45-54      "mcs"    lines 56-60  "remove" lines 63-64*)
(*     "done"   the method returned (lines 66-67)                          *)
(*     "error"  the method was left by the exception named in err          *)
(*     "cutoff" the run left the bounds of the model (MaxEC)               *)
(***************************************************************************)
Min(a, b) == IF a < b THEN a ELSE b

Max(a, b) == IF a < b THEN b ELSE a

\* The Reaction object after __init__ (lines 10-20) and the frame of find_core
\* on entry: no local is bound yet.
NewRun(reactant, product) ==
    [reactant |-> reactant, product |-> product,
     next_reactant_ecs |-> <<>>, next_product_ecs |-> <<>>,
     prev_bound |-> FALSE,
     prev_reactant_ecs |-> <<>>, prev_product_ecs |-> <<>>,
     reactant_ec_mcs |-> {}, product_ec_mcs |-> {},
     reactant_map |-> EmptyMap, product_map |-> EmptyMap, common_ecs |-> {},
     pc |-> "seed", err |-> "none",
     \* rounds of the two engines since their last init_ecs
     reactant_round |-> 0, product_round |-> 0,
     \* history: outer iterations started, sub-loop bodies run in this outer
     \* iteration, the outer iteration and the rounds of the saved sequences,
     \* the graphs on entry
     iterations |-> 0, body_runs |-> 0, prev_iter |-> 0,
     prev_reactant_round |-> 0, prev_product_round |-> 0,
     input_reactant |-> reactant, input_product |-> product]

\* lines 30-31
Seed(m) ==
    [m EXCEPT !.next_reactant_ecs = init_ecs(m.reactant),
              !.next_product_ecs = init_ecs(m.product),
              !.reactant_round = 0, !.product_round = 0,
              !.iterations = m.iterations + 1, !.body_runs = 0,
              !.pc = "guard"]

\* line 35: set(next_reactant_ecs).intersection(next_product_ecs)
EcsIntersect(m) == Range(m.next_reactant_ecs) \cap Range(m.next_product_ecs) # {}

Guard(m) == [m EXCEPT !.pc = IF EcsIntersect(m) THEN "body" ELSE "map"]

\* a slip of lines 41-42: only the reactant is refined, the product stays at
\* the round it was at
BodyReactantOnly(m) ==
    LET r == increment_ecs(m.reactant, m.next_reactant_ecs)
    IN  IF r.err # "none"
        THEN [m EXCEPT !.pc = "error", !.err = "PreconditionViolation"]
        ELSE IF \E v \in Range(r.ecs) : v > MaxEC
        THEN [m EXCEPT !.pc = "cutoff"]
        ELSE [m EXCEPT !.prev_reactant_ecs = m.next_reactant_ecs,
                       !.prev_product_ecs = m.next_product_ecs,
                       !.prev_bound = TRUE,
                       !.prev_iter = m.iterations,
                       !.prev_reactant_round = m.reactant_round,
                       !.prev_product_round = m.product_round,
                       !.next_reactant_ecs = r.ecs,
                       !.reactant_round = Min(m.reactant_round + 1, MaxRound),
                       !.body_runs = Min(m.body_runs + 1, MaxRound),
                       !.pc = "guard"]

\* a slip of lines 37-42: the sequences are saved after they were refined
BodySaveAfterRefine(m) ==
    LET r == increment_ecs(m.reactant, m.next_reactant_ecs)
        p == increment_ecs(m.product, m.next_product_ecs)
    IN  IF r.err # "none" \/ p.err # "none"
        THEN [m EXCEPT !.pc = "error", !.err = "PreconditionViolation"]
        ELSE IF \E v \in Range(r.ecs) \cup Range(p.ecs) : v > MaxEC
        THEN [m EXCEPT !.pc = "cutoff"]
        ELSE [m EXCEPT !.prev_reactant_ecs = r.ecs,
                       !.prev_product_ecs = p.ecs,
                       !.prev_bound = TRUE,
                       !.prev_iter = m.iterations,
                       !.prev_reactant_round = Min(m.reactant_round + 1, MaxRound),
                       !.prev_product_round = Min(m.product_round + 1, MaxRound),
                       !.next_reactant_ecs = r.ecs,
                       !.next_product_ecs = p.ecs,
                       !.reactant_round = Min(m.reactant_round + 1, MaxRound),
                       !.product_round = Min(m.product_round + 1, MaxRound),
                       !.body_runs = Min(m.body_runs + 1, MaxRound),
                       !.pc = "guard"]

\* lines 37-42
Body(m) ==
    LET r == increment_ecs(m.reactant, m.next_reactant_ecs)
        p == increment_ecs(m.product, m.next_product_ecs)
    IN  IF r.err # "none" \/ p.err # "none"
        THEN [m EXCEPT !.pc = "error", !.err = "PreconditionViolation"]
        ELSE IF \E v \in Range(r.ecs) \cup Range(p.ecs) : v > MaxEC
        THEN [m EXCEPT !.pc = "cutoff"]
        ELSE [m EXCEPT !.prev_reactant_ecs = m.next_reactant_ecs,
                       !.prev_product_ecs = m.next_product_ecs,
                       !.prev_bound = TRUE,
                       !.prev_iter = m.iterations,
                       !.prev_reactant_round = m.reactant_round,
                       !.prev_product_round = m.product_round,
                       !.next_reactant_ecs = r.ecs,
                       !.next_product_ecs = p.ecs,
                       !.reactant_round = Min(m.reactant_round + 1, MaxRound),
                       !.product_round = Min(m.product_round + 1, MaxRound),
                       !.body_runs = Min(m.body_runs + 1, MaxRound),
                       !.pc = "guard"]

\* a slip of lines 50-51: the maps are built from the sequences of the round
\* at which the sub-loop was left
BuildMapsFromNext(m) ==
    LET reactant_map == make_ec_map(m.next_reactant_ecs)
        product_map == make_ec_map(m.next_product_ecs)
        common_ecs == DOMAIN reactant_map \cap DOMAIN product_map
    IN  [m EXCEPT !.reactant_ec_mcs = {}, !.product_ec_mcs = {},
                  !.reactant_map = reactant_map,
                  !.product_map = product_map,
                  !.common_ecs = common_ecs,
                  !.pc = IF common_ecs = {} THEN "done" ELSE "mcs"]

\* lines 45-54; reading a local that was never assigned is an UnboundLocalError
BuildMaps(m) ==
    IF ~m.prev_bound
    THEN [m EXCEPT !.reactant_ec_mcs = {}, !.product_ec_mcs = {},
                   !.pc = "error", !.err = "UnboundLocalError"]
    ELSE LET reactant_map == make_ec_map(m.prev_reactant_ecs)
             product_map == make_ec_map(m.prev_product_ecs)
             common_ecs == DOMAIN reactant_map \cap DOMAIN product_map
         IN  [m EXCEPT !.reactant_ec_mcs = {}, !.product_ec_mcs = {},
                       !.reactant_map = reactant_map,
                       !.product_map = product_map,
                       !.common_ecs = common_ecs,
                       !.pc = IF common_ecs = {} THEN "done" ELSE "mcs"]

\* the indices the loops of lines 56-60 pass to find_ec_mcs
MappedIdxs(ec_map, common_ecs) == UNION {Range(ec_map[ec]) : ec \in common_ecs}

\* the closure radius of find_ec_mcs: the round of the level before the
\* engine's current one
McsRadius(round) == Max(round - 1, 0)

\* lines 56-60 for one graph: the union of find_ec_mcs(idx) over the mapped idx
EcMcs(g, ec_map, common_ecs, round) ==
    UNION {find_ec_mcs(g, idx, McsRadius(round)) : idx \in MappedIdxs(ec_map, common_ecs)}

\* lines 56-60; find_ec_mcs of an index that is no atom of the graph raises
CollectMcs(m) ==
    IF \/ ~(MappedIdxs(m.reactant_map, m.common_ecs) \subseteq AtomIdxs(m.reactant))
       \/ ~(MappedIdxs(m.product_map, m.common_ecs) \subseteq AtomIdxs(m.product))
    THEN [m EXCEPT !.pc = "error", !.err = "InvalidAtomIndex"]
    ELSE [m EXCEPT !.reactant_ec_mcs =
                       EcMcs(m.reactant, m.reactant_map, m.common_ecs, m.reactant_round),
                   !.product_ec_mcs =
                       EcMcs(m.product, m.product_map, m.common_ecs, m.product_round),
                   !.pc = "remove"]

\* a slip of lines 63-64: the product keeps its EC-MCS atoms
RemoveFromReactantOnly(m) ==
    [m EXCEPT !.reactant = remove_atoms(m.reactant, m.reactant_ec_mcs),
              !.pc = "seed"]

\* lines 63-64
Remove(m) ==
    [m EXCEPT !.reactant = remove_atoms(m.reactant, m.reactant_ec_mcs),
              !.product = remove_atoms(m.product, m.product_ec_mcs),
              !.pc = "seed"]

(***************************************************************************)
(* The documented example of lines 81-85, heavy atoms in SMILES order.     *)
(***************************************************************************)
C == 1
N == 2
O == 3

\* CC(=O)CC(C)C(CC#N)C(=O)N
ExampleReactant ==
    [elem |-> <<C, C, O, C, C, C, C, C, C, N, C, O, N>>,
     id |-> [i \in 1 .. 13 |-> i - 1],
     bonds |-> {{0, 1}, {1, 2}, {1, 3}, {3, 4}, {4, 5}, {4, 6}, {6, 7}, {7, 8},
                {8, 9}, {6, 10}, {10, 11}, {10, 12}}]

\* CC(=O)CC(C)C(CC#N)C#N
ExampleProduct ==
    [elem |-> <<C, C, O, C, C, C, C, C, C, N, C, N>>,
     id |-> [i \in 1 .. 12 |-> i - 1],
     bonds |-> {{0, 1}, {1, 2}, {1, 3}, {3, 4}, {4, 5}, {4, 6}, {6, 7}, {7, 8},
                {8, 9}, {6, 10}, {10, 11}}]

(***************************************************************************)
(* The specification: one call of find_core on any pair of input graphs.   *)
(***************************************************************************)
Idle == [pc |-> "idle"]

NoCall == [pc |-> "idle"]

Inputs ==
    (Graphs(MaxAtoms) \X Graphs(MaxAtoms)) \cup {<<ExampleReactant, ExampleProduct>>}

Init ==
    /\ \E inp \in Inputs : rxn = NewRun(inp[1], inp[2])
    /\ twin = Idle
    /\ call = NoCall

SeedEcs ==
    /\ rxn.pc = "seed"
    /\ rxn' = Seed(rxn)
    /\ UNCHANGED <<twin, call>>

SubLoopGuard ==
    /\ rxn.pc = "guard"
    /\ rxn' = Guard(rxn)
    /\ UNCHANGED <<twin, call>>

SubLoopBody ==
    /\ rxn.pc = "body"
    /\ rxn' = Body(rxn)
    /\ UNCHANGED <<twin, call>>

MapEcs ==
    /\ rxn.pc = "map"
    /\ rxn' = BuildMaps(rxn)
    /\ UNCHANGED <<twin, call>>

FindMcs ==
    /\ rxn.pc = "mcs"
    /\ rxn' = CollectMcs(rxn)
    /\ UNCHANGED <<twin, call>>

RemoveMcs ==
    /\ rxn.pc = "remove"
    /\ rxn' = Remove(rxn)
    /\ UNCHANGED <<twin, call>>

Next == SeedEcs \/ SubLoopGuard \/ SubLoopBody \/ MapEcs \/ FindMcs \/ RemoveMcs

Spec == Init /\ [][Next]_vars

\* find_core runs to completion: a step that can be taken is taken.
FairSpec == Spec /\ WF_vars(Next)

(***************************************************************************)
(* Two calls of find_core on the same pair of graphs, the atoms of the     *)
(* second call (twin) enumerated in another order.  Both calls take their  *)
(* steps together; a call that has ended stays as it is.                   *)
(***************************************************************************)
Step(m) ==
    CASE m.pc = "seed" -> Seed(m)
      [] m.pc = "guard" -> Guard(m)
      [] m.pc = "body" -> Body(m)
      [] m.pc = "map" -> BuildMaps(m)
      [] m.pc = "mcs" -> CollectMcs(m)
      [] m.pc = "remove" -> Remove(m)
      [] OTHER -> m

Ended(m) == m.pc \in {"done", "error", "cutoff"}

Perms(n) ==
    {f \in [0 .. (n - 1) -> 0 .. (n - 1)] :
        \A i, j \in 0 .. (n - 1) : f[i] = f[j] => i = j}

\* the graph g with atom idx enumerated as atom f[idx]
Permute(g, f) ==
    LET old(j) == CHOOSE i \in AtomIdxs(g) : f[i] = j
    IN  [elem |-> [k \in 1 .. NumAtoms(g) |-> g.elem[old(k - 1) + 1]],
         id |-> [k \in 1 .. NumAtoms(g) |-> g.id[old(k - 1) + 1]],
         bonds |-> {{f[x] : x \in b} : b \in g.bonds}]

InitPair ==
    /\ \E reactant, product \in Graphs(MaxAtoms) :
         \E f \in Perms(NumAtoms(reactant)), h \in Perms(NumAtoms(product)) :
            /\ rxn = NewRun(reactant, product)
            /\ twin = NewRun(Permute(reactant, f), Permute(product, h))
    /\ call = NoCall

PairStep ==
    /\ ~(Ended(rxn) /\ Ended(twin))
    /\ rxn' = Step(rxn)
    /\ twin' = Step(twin)
    /\ UNCHANGED call

SpecPair == InitPair /\ [][PairStep]_vars

(***************************************************************************)
(* The Connectivity Engine on its own: one call of refine on a graph with  *)
(* any EC sequence a caller may hold, of the right length or not.          *)
(***************************************************************************)
\* the EC sequences of length 0 .. n over a few EC values
EcSeqs(n) == UNION {[1 .. k -> {ElemWeight, ElemWeight + 1}] : k \in 0 .. n}

InitRefine ==
    /\ rxn = Idle
    /\ twin = Idle
    /\ \E g \in Graphs(MaxAtoms), ecs \in EcSeqs(MaxAtoms + 1) :
         call = [pc |-> "call", graph |-> g, previous_ecs |-> ecs,
                 err |-> "none", ecs |-> <<>>]

RefineCall ==
    /\ call.pc = "call"
    /\ LET r == increment_ecs(call.graph, call.previous_ecs)
       IN  call' = [call EXCEPT !.pc = IF r.err = "none" THEN "returned" ELSE "raised",
                                !.err = r.err, !.ecs = r.ecs]
    /\ UNCHANGED <<rxn, twin>>

SpecRefine == InitRefine /\ [][RefineCall]_vars

(***************************************************************************)
(* make_ec_map on its own (lines 69-78): one call on any EC sequence of up *)
(* to MaxLen values.  `ecs` is the list object the caller passed, `arg` is *)
(* what it held when the call was made.                                    *)
(***************************************************************************)
EcLists(n) == UNION {[1 .. k -> ElemWeight .. (ElemWeight + 2)] : k \in 0 .. n}

InitMap ==
    /\ rxn = Idle
    /\ twin = Idle
    /\ \E ecs \in EcLists(MaxLen) :
         call = [pc |-> "call", ecs |-> ecs, arg |-> ecs, ec_map |-> EmptyMap]

\* lines 75-78: the loop reads ecs and assigns to ec_map only
MakeEcMapCall ==
    /\ call.pc = "call"
    /\ call' = [call EXCEPT !.pc = "returned", !.ec_map = make_ec_map(call.ecs)]
    /\ UNCHANGED <<rxn, twin>>

SpecMap == InitMap /\ [][MakeEcMapCall]_vars

(***************************************************************************)
(* Vocabulary of the properties.                                           *)
(***************************************************************************)
InputAtoms == NumAtoms(rxn.input_reactant) + NumAtoms(rxn.input_product)

Connected(g) == NumAtoms(g) > 0 /\ Ball(g, {0}, NumAtoms(g)) = AtomIdxs(g)

\* the largest bond distance between two atoms of a connected graph
Eccentricity(g, idx) ==
    CHOOSE r \in 0 .. NumAtoms(g) :
        /\ Ball(g, {idx}, r) = AtomIdxs(g)
        /\ \A q \in 0 .. (r - 1) : Ball(g, {idx}, q) # AtomIdxs(g)

Diameter(g) ==
    CHOOSE d \in 0 .. NumAtoms(g) :
        /\ \A idx \in AtomIdxs(g) : Eccentricity(g, idx) <= d
        /\ \E idx \in AtomIdxs(g) : Eccentricity(g, idx) = d

\* a graph as atom and bond sets over the atom identities
AtomIds(g) == Range(g.id)

BondIds(g) == {{g.id[x + 1] : x \in b} : b \in g.bonds}

IsExample ==
    rxn.input_reactant = ExampleReactant /\ rxn.input_product = ExampleProduct

\* the round-0 EC value sets of the two input graphs share a value
SeedsIntersect ==
    Range(init_ecs(rxn.input_reactant)) \cap Range(init_ecs(rxn.input_product)) # {}

\* the residues N#CC.C(=O)N and N#CC.N#C of the documented example
ExampleResidue ==
    /\ AtomIds(rxn.reactant) = 7 .. 12
    /\ BondIds(rxn.reactant) = {{7, 8}, {8, 9}, {10, 11}, {10, 12}}
    /\ AtomIds(rxn.product) = 7 .. 11
    /\ BondIds(rxn.product) = {{7, 8}, {8, 9}, {10, 11}}

\* two graphs hold the same atoms and the same bonds
SameResidue(g, h) == AtomIds(g) = AtomIds(h) /\ BondIds(g) = BondIds(h)

Returned == rxn.pc = "done"

Raised == rxn.pc = "error"

LeftBounds == rxn.pc = "cutoff"

\* the EC sequence of graph g at refinement round j, counted from the seed
\* (a choice from a one-element set, so that each round is computed once)
RECURSIVE EcsAtRound(_, _)
EcsAtRound(g, j) ==
    IF j = 0 THEN init_ecs(g)
    ELSE CHOOSE ecs \in {NextEcs(g, previous_ecs) :
                            previous_ecs \in {EcsAtRound(g, j - 1)}} : TRUE

\* the EC maps of lines 50-52 are in place
MapsBuilt == rxn.pc \in {"mcs", "remove", "done"}

(***************************************************************************)
(* C1: for every finite pair of input graphs the outer loop of find_core   *)
(* terminates, after at most |atoms(reactant)| + |atoms(product)| outer    *)
(* iterations counted on the input graphs.  Stated for the inputs that    *)
(* share a round-0 EC value (the others are the case of C3 and C4); runs   *)
(* that leave the bounds of the model are not held against the claim.      *)
(***************************************************************************)
C1_TerminatesWithinBound ==
    SeedsIntersect => <>(LeftBounds \/ (Returned /\ rxn.iterations <= InputAtoms))

(***************************************************************************)
(* C2: the refinement sub-loop ends: for connected graphs the EC value     *)
(* sets of reactant and product are disjoint after at most diameter + 1    *)
(* refine rounds, also when the two graphs are isomorphic.                 *)
(***************************************************************************)
C2_SubLoopEndsWithinDiameter ==
    (/\ rxn.pc = "guard"
     /\ Connected(rxn.reactant) /\ Connected(rxn.product)
     /\ rxn.reactant_round >= Max(Diameter(rxn.reactant), Diameter(rxn.product)) + 1)
    => ~EcsIntersect(rxn)

(***************************************************************************)
(* C3: when the reactant or the product graph has no atom on entry,        *)
(* find_core reaches no error state (it returns with both graphs as they   *)
(* were).                                                                  *)
(***************************************************************************)
C3_EmptyGraphReturns ==
    (NumAtoms(rxn.input_reactant) = 0 \/ NumAtoms(rxn.input_product) = 0)
    => /\ ~Raised
       /\ rxn.reactant = rxn.input_reactant /\ rxn.product = rxn.input_product

(***************************************************************************)
(* C4: when the round-0 EC value sets of the two (non-empty) input graphs  *)
(* are disjoint, find_core raises no error and returns through the         *)
(* common_ecs-empty exit of its first outer iteration with no atom removed.*)
(***************************************************************************)
C4_DisjointSeedsReturn ==
    (/\ NumAtoms(rxn.input_reactant) > 0 /\ NumAtoms(rxn.input_product) > 0
     /\ ~SeedsIntersect)
    => /\ ~Raised
       /\ rxn.iterations <= 1
       /\ rxn.reactant = rxn.input_reactant /\ rxn.product = rxn.input_product

(***************************************************************************)
(* C5: when reactant and product are the same (non-empty) graph, find_core *)
(* terminates and both residual graphs have no atom.  (Runs that leave the *)
(* bounds of the model are not held against the claim.)                    *)
(***************************************************************************)
C5_IdenticalGraphsErode ==
    (rxn.input_reactant = rxn.input_product /\ NumAtoms(rxn.input_reactant) > 0)
    => <>(LeftBounds \/ (Returned /\ NumAtoms(rxn.reactant) = 0 /\ NumAtoms(rxn.product) = 0))

(***************************************************************************)
(* C7: on the documented example find_core terminates and leaves the       *)
(* reactant residue N#CC.C(=O)N (atoms 7-9 and 10-12 of the reactant) and  *)
(* the product residue N#CC.N#C (atoms 7-9 and 10-11 of the product): what *)
(* it returns are these residues, and once the graphs are these residues   *)
(* the loop is left, that is, the outer iteration that starts on them      *)
(* finds no EC value common to both graphs.                                *)
(***************************************************************************)
C7_ExampleCore ==
    IsExample =>
        /\ Returned => ExampleResidue
        /\ (ExampleResidue /\ rxn.pc = "guard") => ~EcsIntersect(rxn)

(***************************************************************************)
(* C10: the EC sequences and EC maps used by steps 3-6 of an outer         *)
(* iteration (lines 50-64) were saved in that same outer iteration, after  *)
(* the most recent removal of atoms.                                       *)
(***************************************************************************)
C10_EcsOfCurrentIteration ==
    rxn.pc \in {"mcs", "remove"} => rxn.prev_iter = rxn.iterations

C8_Deterministic ==
    (Ended(rxn) /\ Ended(twin) /\ rxn.pc # "cutoff" /\ twin.pc # "cutoff")
    => /\ SameResidue(rxn.reactant, twin.reactant)
       /\ SameResidue(rxn.product, twin.product)

C11_BodyRunsBeforeMaps ==
    rxn.pc = "map" => rxn.body_runs >= 1

(***************************************************************************)
(* C12: when the sub-loop is left after k >= 1 rounds of refinement, the   *)
(* EC value sets of the two graphs are disjoint at round k and intersect   *)
(* at round k - 1, and the EC maps of lines 50-52 are those of the round   *)
(* k - 1 sequences of both graphs, not those of the round k sequences.     *)
(***************************************************************************)
C12_MapsOfLastCommonRound ==
    (MapsBuilt /\ rxn.body_runs >= 1 /\ rxn.body_runs < MaxRound) =>
        LET k == rxn.body_runs
            last_reactant_ecs == EcsAtRound(rxn.reactant, k - 1)
            last_product_ecs == EcsAtRound(rxn.product, k - 1)
        IN  /\ rxn.next_reactant_ecs = EcsAtRound(rxn.reactant, k)
            /\ rxn.next_product_ecs = EcsAtRound(rxn.product, k)
            /\ Range(rxn.next_reactant_ecs) \cap Range(rxn.next_product_ecs) = {}
            /\ Range(last_reactant_ecs) \cap Range(last_product_ecs) # {}
            /\ rxn.reactant_map = make_ec_map(last_reactant_ecs)
            /\ rxn.product_map = make_ec_map(last_product_ecs)
            /\ rxn.common_ecs = Range(last_reactant_ecs) \cap Range(last_product_ecs)

\* the sub-loop was left after two rounds or more and the maps were built
C12_Witness ==
    rxn.pc = "mcs" /\ rxn.body_runs >= 2 /\ rxn.reactant_map # EmptyMap

C14_MakeEcMap ==
    call.pc = "returned" =>
        LET ecs == call.arg
            n == Len(ecs)
            ec_map == call.ec_map
        IN  /\ call.ecs = ecs
            /\ ec_map = make_ec_map(ecs)
            /\ DOMAIN ec_map = Range(ecs)
            /\ \A i \in 0 .. (n - 1) : \A ec \in DOMAIN ec_map :
                  (i \in Range(ec_map[ec])) <=> (ec = ecs[i + 1])
            /\ \A ec \in DOMAIN ec_map :
                  /\ Range(ec_map[ec]) \subseteq 0 .. (n - 1)
                  /\ \A p, q \in DOMAIN ec_map[ec] :
                        p < q => ec_map[ec][p] < ec_map[ec][q]
            /\ n = 0 => ec_map = EmptyMap

\* a sequence of full length with a repeated value and two values or more
C14_Witness ==
    /\ call.pc = "returned" /\ Len(call.arg) = MaxLen
    /\ Cardinality(DOMAIN call.ec_map) >= 2
    /\ \E ec \in DOMAIN call.ec_map : Len(call.ec_map[ec]) >= 2

(***************************************************************************)
(* C15: once the sub-loop body has run in the current outer iteration, the *)
(* saved sequences prev_reactant_ecs and prev_product_ecs share an EC      *)
(* value, so the common_ecs of line 52 is not empty and the exit of lines  *)
(* 53-54 is not taken; the exit is taken only in an outer iteration whose  *)
(* sub-loop body did not run.                                              *)
(***************************************************************************)
C15_SavedEcsShareValue ==
    /\ (rxn.body_runs >= 1 /\ rxn.pc \in {"guard", "body", "map"}) =>
          Range(rxn.prev_reactant_ecs) \cap Range(rxn.prev_product_ecs) # {}
    /\ (rxn.body_runs >= 1 /\ MapsBuilt) =>
          /\ rxn.common_ecs =
                Range(rxn.prev_reactant_ecs) \cap Range(rxn.prev_product_ecs)
          /\ rxn.common_ecs # {}
          /\ rxn.pc # "done"
    /\ rxn.pc = "done" => rxn.body_runs = 0

\* the maps of an outer iteration whose body ran were built: line 53 is passed
C15_Witness ==
    /\ rxn.pc = "mcs" /\ rxn.body_runs >= 1 /\ rxn.prev_iter = rxn.iterations
    /\ rxn.common_ecs # {}

(***************************************************************************)
(* C16: every index that lines 56-60 pass to find_ec_mcs of a graph, and   *)
(* every index of the set that lines 63-64 pass to remove_atoms of a       *)
(* graph, is an index of an atom of that graph as it then is               *)
(* (0 <= idx < atom count), the reactant's indices on the reactant and the *)
(* product's on the product.                                               *)
(***************************************************************************)
C16_IndicesValid ==
    /\ rxn.pc = "mcs" =>
          /\ MappedIdxs(rxn.reactant_map, rxn.common_ecs) \subseteq AtomIdxs(rxn.reactant)
          /\ MappedIdxs(rxn.product_map, rxn.common_ecs) \subseteq AtomIdxs(rxn.product)
    /\ rxn.pc = "remove" =>
          /\ rxn.reactant_ec_mcs \subseteq AtomIdxs(rxn.reactant)
          /\ rxn.product_ec_mcs \subseteq AtomIdxs(rxn.product)

=============================================================================
